---- MODULE Spec2Model ----
(***************************************************************************)
(* Model of mtr-tool.                                                      *)
(*                                                                         *)
(* Spec        the raw-record parser and hop-statistics aggregator         *)
(*             (package mtr, func parseOutput): it consumes the probe's    *)
(*             raw output one line per step and then runs the post-pass    *)
(*             (loss, sentinel cleanup, ordering, deduplication).          *)
(* SpecSamples the same parser on the output of one hop that answers       *)
(*             every ping.                                                 *)
(* SpecRender  the report writers colorizeOutput and generateSummary on    *)
(*             hop lists as the parser returns them.                       *)
(* SpecHTTP    the HTTP handler HandleMTR, from the query to the           *)
(*             response and the background run.                            *)
(* SpecRun     the command line (runCLI) and Run: the probe, the parse,    *)
(*             the report or the error.                                    *)
(* SpecConc    background runs parsing at the same time.                   *)
(*                                                                         *)
(* Text is modelled as sequences of one-character strings, so that         *)
(* strings.Fields, strings.Join, strconv.Atoi, strconv.Itoa,               *)
(* strconv.ParseFloat and the verbs of fmt are computed, not assumed.      *)
(* float64 values are modelled as exact rationals [n, d] in lowest terms;  *)
(* math.MaxFloat64 is the rational 1/0, which compares above every finite  *)
(* value.  The variables of the parts a specification does not run keep    *)
(* their idle values.                                                      *)
(***************************************************************************)
EXTENDS Integers, Sequences, FiniteSets, TLC

\* ---------------------------------------------------------------- bounds
\* Longest raw output, in lines.
MaxLines == 3
\* Largest zero-based hop index printed on a line.
MaxHopIdx == 1
\* Largest configured probe count (Config.Count).
MaxCount == 2

\* ------------------------------------------------------------ characters
Digits == <<"0", "1", "2", "3", "4", "5", "6", "7", "8", "9">>

IsDigit(c) == \E i \in 1..10 : Digits[i] = c

DigitVal(c) == (CHOOSE i \in 1..10 : Digits[i] = c) - 1

IsSpace(c) == c \in {" ", "\t"}

\* ------------------------------------------------------------- rationals
Abs(x) == IF x < 0 THEN -x ELSE x

RECURSIVE GCD(_, _)
GCD(a, b) == IF b = 0 THEN a ELSE GCD(b, a % b)

\* n/d in lowest terms with a positive denominator; x/0 is kept as 1/0.
Rat(n, d) ==
  IF d = 0 THEN [n |-> 1, d |-> 0]
  ELSE LET g == GCD(Abs(n), Abs(d))
           s == IF d < 0 THEN -1 ELSE 1
       IN [n |-> s * (n \div g), d |-> s * (d \div g)]

Zero == Rat(0, 1)

FromInt(i) == Rat(i, 1)

RatAdd(a, b) == Rat(a.n * b.d + b.n * a.d, a.d * b.d)

RatSub(a, b) == Rat(a.n * b.d - b.n * a.d, a.d * b.d)

RatMul(a, b) == Rat(a.n * b.n, a.d * b.d)

RatDiv(a, b) == Rat(a.n * b.d, a.d * b.n)

RatLess(a, b) == a.n * b.d < b.n * a.d

\* Largest r with r*r <= n.
ISqrt(n) == CHOOSE r \in 0..n : r * r <= n /\ (r + 1) * (r + 1) > n

\* math.Sqrt, exact on the squares of rationals (the only radicands the
\* parser produces).
RatSqrt(a) == Rat(ISqrt(a.n), ISqrt(a.d))

\* ------------------------------------------------------------ text, strconv
\* strings.Fields: the maximal runs of non-space characters of s.
RECURSIVE FieldsFrom(_, _, _, _)
FieldsFrom(s, i, cur, acc) ==
  IF i > Len(s) THEN IF cur = <<>> THEN acc ELSE Append(acc, cur)
  ELSE IF IsSpace(s[i])
       THEN FieldsFrom(s, i + 1, <<>>, IF cur = <<>> THEN acc ELSE Append(acc, cur))
       ELSE FieldsFrom(s, i + 1, Append(cur, s[i]), acc)

Fields(s) == FieldsFrom(s, 1, <<>>, <<>>)

\* strings.Join(elems, sep).
RECURSIVE Join(_, _)
Join(elems, sep) ==
  IF elems = <<>> THEN <<>>
  ELSE IF Len(elems) = 1 THEN elems[1]
  ELSE elems[1] \o sep \o Join(Tail(elems), sep)

RECURSIVE DigitsVal(_)
DigitsVal(s) ==
  IF s = <<>> THEN 0
  ELSE 10 * DigitsVal(SubSeq(s, 1, Len(s) - 1)) + DigitVal(s[Len(s)])

\* The decimal integers strconv accepts: an optional sign, then digits.
IsDecimal(s) ==
  LET body == IF s # <<>> /\ s[1] \in {"-", "+"} THEN Tail(s) ELSE s
  IN body # <<>> /\ \A i \in 1..Len(body) : IsDigit(body[i])

DecimalVal(s) ==
  IF s[1] = "-" THEN -DigitsVal(Tail(s))
  ELSE IF s[1] = "+" THEN DigitsVal(Tail(s))
  ELSE DigitsVal(s)

\* strconv.Atoi with the error dropped (hopNumInt, _ := ...): 0 on error.
Atoi(s) == IF IsDecimal(s) THEN DecimalVal(s) ELSE 0

RECURSIVE ItoaNat(_)
ItoaNat(n) ==
  IF n < 10 THEN <<Digits[n + 1]>>
  ELSE ItoaNat(n \div 10) \o <<Digits[(n % 10) + 1]>>

\* strconv.Itoa.
Itoa(n) == IF n < 0 THEN <<"-">> \o ItoaNat(-n) ELSE ItoaNat(n)

\* strconv.ParseFloat(s, 64) on the decimal integers; anything else that
\* the model feeds it is a syntax error.
ParseFloat(s) ==
  IF IsDecimal(s) THEN [err |-> FALSE, val |-> FromInt(DecimalVal(s))]
  ELSE [err |-> TRUE, val |-> Zero]

\* ------------------------------------------------------------ Go maps
\* m[k] = v
Put(m, k, v) == [x \in (DOMAIN m) \cup {k} |-> IF x = k THEN v ELSE m[x]]

\* m[k] of a map[string]int: the zero value when k is absent.
GetInt(m, k) == IF k \in DOMAIN m THEN m[k] ELSE 0

EmptyMap == [x \in {} |-> 0]

\* ------------------------------------------------------------ HopData
\* The "???" hostname of a hop that no h or d record has named.
Unknown == <<"?", "?", "?">>

\* math.MaxFloat64, the initial Best of a hop.
MaxFloat64 == Rat(1, 0)

\* The HopData literal of a hop seen for the first time.
NewHop(hopNumInt, cnt) ==
  [Hop |-> hopNumInt, Hostname |-> Unknown, IP |-> <<>>,
   Loss |-> FromInt(100), Sent |-> cnt, Last |-> Zero, Avg |-> Zero,
   Best |-> MaxFloat64, Worst |-> Zero, StDev |-> Zero]

\* ------------------------------------------------------------ the scan
\* parts[1] converted to the 1-based index (Atoi, then ++).
HopNumInt(parts) == Atoi(parts[2]) + 1

\* The key of the hop in hopMap and receivedPings.
HopNum(parts) == Itoa(HopNumInt(parts))

\* "Initialize hop if not exists".
EnsureHop(hm, hopNum, hopNumInt, cnt) ==
  IF hopNum \in DOMAIN hm THEN hm ELSE Put(hm, hopNum, NewHop(hopNumInt, cnt))

\* case "h": the address, and the hostname while it is still "???".
HandleH(hm, hopNum, parts) ==
  IF Len(parts) >= 3
  THEN [hm EXCEPT ![hopNum] =
          [@ EXCEPT !.IP = parts[3],
                    !.Hostname = IF @ = Unknown THEN parts[3] ELSE @]]
  ELSE hm

\* case "d": the DNS name, the fields from the third on joined by spaces.
HandleD(hm, hopNum, parts) ==
  IF Len(parts) >= 3
  THEN [hm EXCEPT ![hopNum].Hostname = Join(SubSeq(parts, 3, Len(parts)), <<" ">>)]
  ELSE hm

\* The binding as it would be if an announced sequence id kept its first hop.
BindSeqFirstWins(sm, hopNum, parts) ==
  IF Len(parts) >= 3 /\ parts[3] \notin DOMAIN sm
  THEN Put(sm, parts[3], hopNum)
  ELSE sm

\* case "x": seqMap[parts[2]] = hopNum.
BindSeq(sm, hopNum, parts) ==
  IF Len(parts) >= 3 THEN Put(sm, parts[3], hopNum) ELSE sm

\* A p record is matched when it has a sequence field that seqMap binds.
Matched(sm, parts) == Len(parts) >= 4 /\ parts[4] \in DOMAIN sm

\* The key whose receivedPings entry a matched p record increments:
\* receivedPings[hopNum]++, hopNum being the index printed on the p line.
CountedKey(hopNum, hopForSeq) == hopNum

\* The sumSq loop: received-1 times the squared distance of Last to Avg.
RECURSIVE SumSq(_, _, _)
SumSq(i, last, avg) ==
  IF i = 0 THEN Zero
  ELSE RatAdd(SumSq(i - 1, last, avg),
              RatMul(RatSub(last, avg), RatSub(last, avg)))

\* The statistics of the hop after a sample of ms milliseconds, received
\* being the counter read back from receivedPings.
UpdateStats(hop, ms, received) ==
  LET avg == RatDiv(RatAdd(RatMul(hop.Avg, FromInt(received - 1)), ms),
                    FromInt(received))
  IN [hop EXCEPT
        !.Last = ms,
        !.Best = IF RatLess(ms, @) THEN ms ELSE @,
        !.Worst = IF RatLess(@, ms) THEN ms ELSE @,
        !.Avg = avg,
        !.StDev = IF received > 1
                  THEN RatSqrt(RatDiv(SumSq(received - 1, ms, avg),
                                      FromInt(received - 1)))
                  ELSE @]

\* case "p", the counters.
HandlePCount(rp, sm, hopNum, parts) ==
  IF Matched(sm, parts)
  THEN LET k == CountedKey(hopNum, sm[parts[4]])
       IN Put(rp, k, GetInt(rp, k) + 1)
  ELSE rp

\* case "p", the hops: rp is receivedPings after the increment.
HandleP(hm, rp, sm, hopNum, parts) ==
  IF Matched(sm, parts)
  THEN LET hopForSeq == sm[parts[4]]
           usec == ParseFloat(parts[3])
       IN IF ~usec.err
          THEN [hm EXCEPT ![hopForSeq] =
                  UpdateStats(@, RatDiv(usec.val, FromInt(1000)),
                              GetInt(rp, CountedKey(hopNum, hopForSeq)))]
          ELSE hm
  ELSE hm

\* One iteration of the loop over the lines: the maps after the line.
ParseLine(st, line, cnt) ==
  LET parts == Fields(line)
  IN IF line = <<>> \/ Len(parts) < 2 THEN st
     ELSE LET recordType == parts[1]
              hopNum == HopNum(parts)
              hm == EnsureHop(st.hopMap, hopNum, HopNumInt(parts), cnt)
          IN CASE recordType = <<"h">> ->
                    [st EXCEPT !.hopMap = HandleH(hm, hopNum, parts)]
               [] recordType = <<"d">> ->
                    [st EXCEPT !.hopMap = HandleD(hm, hopNum, parts)]
               [] recordType = <<"x">> ->
                    [st EXCEPT !.hopMap = hm,
                               !.seqMap = BindSeq(@, hopNum, parts)]
               [] recordType = <<"p">> ->
                    LET rp == HandlePCount(st.receivedPings, st.seqMap, hopNum, parts)
                    IN [st EXCEPT !.hopMap = HandleP(hm, rp, st.seqMap, hopNum, parts),
                                  !.receivedPings = rp]
               [] OTHER -> [st EXCEPT !.hopMap = hm]

\* ------------------------------------------------------------ the post-pass
\* maxHop as it would be if the scan kept the smallest positive Hop.
MaxHopOfLowest(hm) ==
  IF \E k \in DOMAIN hm : hm[k].Hop > 0
  THEN CHOOSE m \in {hm[k].Hop : k \in DOMAIN hm} :
         m > 0 /\ \A k \in DOMAIN hm : hm[k].Hop > 0 => m <= hm[k].Hop
  ELSE 0

\* maxHop: the largest Hop of the map, starting from 0.
MaxHopOf(hm) ==
  IF \E k \in DOMAIN hm : hm[k].Hop > 0
  THEN CHOOSE m \in {hm[k].Hop : k \in DOMAIN hm} :
         \A k \in DOMAIN hm : hm[k].Hop <= m
  ELSE 0

\* The loss as it would be without the guard against a count of 0.
LossPercentUnguarded(cnt, received) ==
  RatDiv(RatMul(FromInt(100), RatSub(FromInt(cnt), FromInt(received))),
         FromInt(cnt))

\* The loss as it would be if the share received were reported instead.
LossPercentOfReceived(cnt, received) ==
  IF cnt > 0
  THEN RatDiv(RatMul(FromInt(100), FromInt(received)), FromInt(cnt))
  ELSE FromInt(100)

\* The loss percentage of a hop from the configured count and its counter.
LossPercent(cnt, received) ==
  IF cnt > 0
  THEN RatDiv(RatMul(FromInt(100), RatSub(FromInt(cnt), FromInt(received))),
              FromInt(cnt))
  ELSE FromInt(100)

\* The loop that resets the Best sentinel and sets Loss, on every hop.
PostPass(hm, rp, cnt) ==
  [k \in DOMAIN hm |->
     [hm[k] EXCEPT !.Best = IF @ = MaxFloat64 THEN Zero ELSE @,
                   !.Loss = LossPercent(cnt, GetInt(rp, k))]]

\* The ordering loop as it would start if it walked zero-based indices.
FirstIndexZeroBased == 1 - 1

\* The ordering loop as it would start if it skipped the first index.
FirstIndexSkipped == 1 + 1

\* The index the ordering loop starts from.
FirstIndex == 1

\* The skip condition as it would be if only addresses were compared.
IsDuplicateByAddress(hop, emitted, i) ==
  /\ emitted # <<>>
  /\ i > 1
  /\ LET lastHop == emitted[Len(emitted)]
     IN hop.IP # <<>> /\ hop.IP = lastHop.IP

\* The skip condition as it would be if a hop were compared with every hop
\* emitted so far instead of the last one.
IsDuplicateOfAny(hop, emitted, i) ==
  /\ emitted # <<>>
  /\ i > 1
  /\ \E k \in 1..Len(emitted) :
       \/ (hop.IP # <<>> /\ hop.IP = emitted[k].IP)
       \/ (hop.Hostname # Unknown /\ hop.Hostname = emitted[k].Hostname)

\* The skip condition of the ordering loop; emitted is the result so far,
\* whose last element is what lastHop points to (nil while it is empty).
IsDuplicate(hop, emitted, i) ==
  /\ emitted # <<>>
  /\ i > 1
  /\ LET lastHop == emitted[Len(emitted)]
     IN \/ (hop.IP # <<>> /\ hop.IP = lastHop.IP)
        \/ (hop.Hostname # Unknown /\ hop.Hostname = lastHop.Hostname)

\* for i := 1; i <= maxHop; i++ { ... }
RECURSIVE BuildResult(_, _, _, _)
BuildResult(hm, i, maxHop, emitted) ==
  IF i > maxHop THEN emitted
  ELSE IF Itoa(i) \in DOMAIN hm /\ ~IsDuplicate(hm[Itoa(i)], emitted, i)
       THEN BuildResult(hm, i + 1, maxHop, Append(emitted, hm[Itoa(i)]))
       ELSE BuildResult(hm, i + 1, maxHop, emitted)

\* What parseOutput returns from the maps the scan has built.
Finalize(hm, rp, cnt) ==
  BuildResult(PostPass(hm, rp, cnt), FirstIndex, MaxHopOf(hm), <<>>)

\* ------------------------------------------------------------ the raw output
Sp == <<" ">>

\* The hop-index fields of the probe's records: 0..MaxHopIdx in decimal.
HopFields == {Itoa(i) : i \in 0..MaxHopIdx}

\* Second fields of lines that are no records of the probe: a negative
\* number and a word.
OddFields == {<<"-", "1">>, <<"z">>}

\* Addresses of h records.
Addrs == {<<"a">>, <<"b">>}

\* DNS names of d records as printed: one word, and two words two spaces apart.
Names == {<<"a">>, <<"n", " ", " ", "m">>}

\* Sequence ids of x and p records.
Seqs == {<<"3">>, <<"4">>}

\* Latency fields of p records, in microseconds; the last is no number.
Lats == {<<"1", "0", "0", "0">>, <<"3", "0", "0", "0">>, <<"?">>}

HLine(i, a) == <<"h">> \o Sp \o i \o Sp \o a

DLine(i, n) == <<"d">> \o Sp \o i \o Sp \o n

XLine(i, s) == <<"x">> \o Sp \o i \o Sp \o s

PLine(i, l, s) == <<"p">> \o Sp \o i \o Sp \o l \o Sp \o s

\* A record type the parser does not know.
OtherLine(i) == <<"t">> \o Sp \o i

\* Lines of fewer than two fields: the empty line, blanks, one field.
ShortLines == {<<>>, <<" ">>, <<"h">>}

\* The counts a transport hands to parseOutput: the command line passes its
\* -count flag on unchecked, so a negative one is among them.
Counts == {-1} \cup (0..MaxCount)

\* ------------------------------------------------------------ state
VARIABLES
  count,          \* the count argument of parseOutput
  hopMap,         \* key -> HopData
  seqMap,         \* sequence id -> key of the hop that announced it
  receivedPings,  \* key -> number of counted ping results
  nLines,         \* lines consumed so far
  pc,             \* "scan" while the loop over the lines runs, then "done"
  result,         \* the slice parseOutput returns
  xLog,           \* history: sequence id -> keys of the hops its x records
                  \* named, oldest first
  attributed,     \* history: key -> latency fields of the p records whose
                  \* sequence id was bound to that hop when they arrived
  sawP,           \* history: a p record has been consumed
  records         \* history kept for an output of one hop's h and d records:
                  \* the type and third field of each, oldest first

\* The report writers (colorizeOutput, generateSummary).
VARIABLES
  hops,           \* the hop list handed to the report writers
  tables,         \* what the calls of colorizeOutput returned, oldest first
  summaries,      \* what the calls of generateSummary returned, oldest first
  orders          \* history: the order in which each call of colorizeOutput
                  \* iterated over columnWidths

\* The HTTP handler (HandleMTR).
VARIABLES
  query,          \* r.URL.Query(): the values of each parameter, in order
  handler,        \* the position of HandleMTR
  cfg,            \* the mtr.Config being built, then handed to Run
  responses,      \* the responses written to w, oldest first
  goroutines,     \* the Config of each background run started by go func()
  console         \* what the background runs printed, oldest first

\* The command line (runCLI) and Run.
VARIABLES
  flags,          \* the values of -host, -count and -report
  cli,            \* the position of runCLI
  run,            \* the position of Run
  outputStr,      \* the combined output of the probe, as lines
  err,            \* the error of cmd.CombinedOutput
  parses,         \* history: the texts parseOutput was applied to
  ret             \* what Run returned: at most one pair (result, error)

\* Background runs executing at the same time.
VARIABLES
  runs            \* per run: its count, the lines it read, its maps, its
                  \* position and its hop list

parserVars == <<count, hopMap, seqMap, receivedPings, nLines, pc, result,
                xLog, attributed, sawP, records>>

renderVars == <<hops, tables, summaries, orders>>

httpVars == <<query, handler, cfg, responses, goroutines, console>>

runVars == <<flags, cli, run, outputStr, err, parses, ret>>

concVars == <<runs>>

vars == <<parserVars, renderVars, httpVars, runVars, concVars>>

\* No parse is under way.
ParserIdle ==
  /\ count = 0
  /\ hopMap = EmptyMap
  /\ seqMap = EmptyMap
  /\ receivedPings = EmptyMap
  /\ nLines = 0
  /\ pc = "idle"
  /\ result = <<>>
  /\ xLog = EmptyMap
  /\ attributed = EmptyMap
  /\ sawP = FALSE
  /\ records = <<>>

\* No report is being written.
RenderIdle ==
  /\ hops = <<>>
  /\ tables = <<>>
  /\ summaries = <<>>
  /\ orders = <<>>

\* The zero value of mtr.Config.
ZeroConfig == [Hostname |-> <<>>, Count |-> 0, Report |-> FALSE]

\* No request is being handled.
HTTPIdle ==
  /\ query = [hostname |-> <<>>, count |-> <<>>, report |-> <<>>]
  /\ handler = "idle"
  /\ cfg = ZeroConfig
  /\ responses = <<>>
  /\ goroutines = <<>>
  /\ console = <<>>

\* No command line is being served and Run is not called.
RunIdle ==
  /\ flags = ZeroConfig
  /\ cli = "idle"
  /\ run = "idle"
  /\ outputStr = <<>>
  /\ err = "nil"
  /\ parses = <<>>
  /\ ret = <<>>

\* No background run exists.
ConcIdle == runs = <<>>

\* The maps of the scan as one value.
Maps == [hopMap |-> hopMap, seqMap |-> seqMap, receivedPings |-> receivedPings]

Init ==
  /\ count \in Counts
  /\ hopMap = EmptyMap
  /\ seqMap = EmptyMap
  /\ receivedPings = EmptyMap
  /\ nLines = 0
  /\ pc = "scan"
  /\ result = <<>>
  /\ xLog = EmptyMap
  /\ attributed = EmptyMap
  /\ sawP = FALSE
  /\ records = <<>>
  /\ RenderIdle
  /\ HTTPIdle
  /\ RunIdle
  /\ ConcIdle

\* The hop a zero-based index field names.
HopOf(i) == Itoa(Atoi(i) + 1)

\* history[k], or the empty sequence when nothing was logged under k.
Logged(history, k) == IF k \in DOMAIN history THEN history[k] ELSE <<>>

\* The hop named by the most recent x record for sequence id s.
LastX(s) == xLog[s][Len(xLog[s])]

\* The loop body on one line of an output of at most limit lines.
ConsumeWithin(line, limit) ==
  /\ pc = "scan"
  /\ nLines < limit
  /\ \E st \in {ParseLine(Maps, line, count)} :
        /\ hopMap' = st.hopMap
        /\ seqMap' = st.seqMap
        /\ receivedPings' = st.receivedPings
  /\ nLines' = nLines + 1
  /\ UNCHANGED <<count, pc, result, renderVars, httpVars, runVars, concVars>>

\* The loop body on one line.
Consume(line) == ConsumeWithin(line, MaxLines)

\* An h record for index field i with address a.
HRecord(i, a) ==
  /\ Consume(HLine(i, a))
  /\ UNCHANGED <<xLog, attributed, sawP, records>>

\* A d record for index field i with the name n.
DRecord(i, n) ==
  /\ Consume(DLine(i, n))
  /\ UNCHANGED <<xLog, attributed, sawP, records>>

\* An x record for index field i announcing sequence id s.
XRecord(i, s) ==
  /\ Consume(XLine(i, s))
  /\ xLog' = Put(xLog, s, Append(Logged(xLog, s), HopOf(i)))
  /\ UNCHANGED <<attributed, sawP, records>>

\* A p record printed with index field i, latency field l, sequence id s.
PRecord(i, l, s) ==
  /\ Consume(PLine(i, l, s))
  /\ attributed' =
       IF s \in DOMAIN xLog
       THEN Put(attributed, LastX(s), Append(Logged(attributed, LastX(s)), l))
       ELSE attributed
  /\ sawP' = TRUE
  /\ UNCHANGED <<xLog, records>>

\* A line of an unknown record type with second field i.
OtherRecord(i) ==
  /\ Consume(OtherLine(i))
  /\ UNCHANGED <<xLog, attributed, sawP, records>>

\* A line of fewer than two fields.
ShortLine(line) ==
  /\ Consume(line)
  /\ UNCHANGED <<xLog, attributed, sawP, records>>

ProcessH == \E i \in HopFields, a \in Addrs : HRecord(i, a)

ProcessD == \E i \in HopFields, n \in Names : DRecord(i, n)

ProcessX == \E i \in HopFields, s \in Seqs : XRecord(i, s)

ProcessP == \E i \in HopFields, l \in Lats, s \in Seqs : PRecord(i, l, s)

ProcessOther == \E i \in HopFields \cup OddFields : OtherRecord(i)

SkipShort == \E line \in ShortLines : ShortLine(line)

\* The end of the output: the post-pass and the return.
Finish ==
  /\ pc = "scan"
  /\ pc' = "done"
  /\ hopMap' = PostPass(hopMap, receivedPings, count)
  /\ result' = Finalize(hopMap, receivedPings, count)
  /\ UNCHANGED <<count, seqMap, receivedPings, nLines, xLog, attributed, sawP,
                 records>>
  /\ UNCHANGED <<renderVars, httpVars, runVars, concVars>>

Next ==
  \/ ProcessH
  \/ ProcessD
  \/ ProcessX
  \/ ProcessP
  \/ ProcessOther
  \/ SkipShort
  \/ Finish

Spec == Init /\ [][Next]_vars

\* ------------------------------------------------------------ one hop's samples
\* The raw output of a probe of one hop whose every ping is answered: the x
\* record that announces the sequence id, then p records of that id, each
\* printed with the hop's own index and a latency that is a number.
\* Most p records of such an output.
MaxSamples == 3

\* The latency fields of the p records, in microseconds.
SampleLats == {<<"1", "0", "0", "0">>, <<"2", "0", "0", "0">>,
               <<"4", "0", "0", "0">>}

\* The x record of the hop.
AnnounceHop ==
  /\ ConsumeWithin(XLine(<<"0">>, <<"3">>), 1)
  /\ xLog' = Put(xLog, <<"3">>, Append(Logged(xLog, <<"3">>), HopOf(<<"0">>)))
  /\ UNCHANGED <<attributed, sawP, records>>

\* A p record of the hop with latency field l.
RecordSample(l) ==
  /\ nLines >= 1
  /\ ConsumeWithin(PLine(<<"0">>, l, <<"3">>), 1 + MaxSamples)
  /\ attributed' = Put(attributed, LastX(<<"3">>),
                       Append(Logged(attributed, LastX(<<"3">>)), l))
  /\ sawP' = TRUE
  /\ UNCHANGED <<xLog, records>>

ProcessSample == \E l \in SampleLats : RecordSample(l)

NextSamples ==
  \/ AnnounceHop
  \/ ProcessSample
  \/ Finish

SpecSamples == Init /\ [][NextSamples]_vars

\* ------------------------------------------------------------ one hop's names
\* The raw output of a probe that prints only the h and d records of its
\* first hop, in any order.
\* Most records of such an output.
MaxNameLines == 3

\* The names of the d records: those of Names, and a name that reads "???".
DNames == Names \cup {Unknown}

\* An h record of the hop with address a.
NameH(a) ==
  /\ ConsumeWithin(HLine(<<"0">>, a), MaxNameLines)
  /\ records' = Append(records, [type |-> "h", value |-> a])
  /\ UNCHANGED <<xLog, attributed, sawP>>

\* A d record of the hop with the name n.
NameD(n) ==
  /\ ConsumeWithin(DLine(<<"0">>, n), MaxNameLines)
  /\ records' = Append(records, [type |-> "d", value |-> n])
  /\ UNCHANGED <<xLog, attributed, sawP>>

AddressHop == \E a \in Addrs : NameH(a)

NameHop == \E n \in DNames : NameD(n)

NextNames ==
  \/ AddressHop
  \/ NameHop
  \/ Finish

SpecNames == Init /\ [][NextNames]_vars

\* ------------------------------------------------------------ a route's hops
\* The raw output of a probe that prints only h and d records, of its first
\* three hops, in any order.
\* Most records of such an output.
MaxRouteLines == 3

\* The hop-index fields of the first three hops.
RouteFields == {<<"0">>, <<"1">>, <<"2">>}

\* An h record of hop i with address a.
RouteH(i, a) ==
  /\ ConsumeWithin(HLine(i, a), MaxRouteLines)
  /\ UNCHANGED <<xLog, attributed, sawP, records>>

\* A d record of hop i with the name n.
RouteD(i, n) ==
  /\ ConsumeWithin(DLine(i, n), MaxRouteLines)
  /\ UNCHANGED <<xLog, attributed, sawP, records>>

AddressRoute == \E i \in RouteFields, a \in Addrs : RouteH(i, a)

NameRoute == \E i \in RouteFields, n \in Names : RouteD(i, n)

NextRoute ==
  \/ AddressRoute
  \/ NameRoute
  \/ Finish

SpecRoute == Init /\ [][NextRoute]_vars

\* ------------------------------------------------------------ the report
\* ANSI color codes, each one element of a text.
colorReset == "ESC[0m"

colorRed == "ESC[31m"

colorGreen == "ESC[32m"

colorYellow == "ESC[33m"

\* Column widths for table formatting.
columnWidths ==
  [hop |-> 3, loss |-> 6, snt |-> 3, last |-> 7, avg |-> 7, best |-> 7,
   worst |-> 7, stdev |-> 7, host |-> 40]

\* The keys of columnWidths as declared.
ColumnKeys ==
  <<"hop", "loss", "snt", "last", "avg", "best", "worst", "stdev", "host">>

\* s from its (k+1)-th element on, then its first k elements.
Rotate(s, k) == [i \in 1..Len(s) |-> s[((i + k - 1) % Len(s)) + 1]]

\* The orders in which a range over columnWidths may visit its keys: the
\* language leaves the order open, the runtime starts at a random place and
\* wraps around.
IterationOrders == {Rotate(ColumnKeys, k) : k \in 0..(Len(ColumnKeys) - 1)}

\* The separator loop as it would be with = in place of +=.
RECURSIVE TotalWidthLastSeen(_)
TotalWidthLastSeen(order) ==
  IF order = <<>> THEN 0
  ELSE IF Len(order) = 1 THEN columnWidths[order[1]] + 2
  ELSE TotalWidthLastSeen(Tail(order))

\* The separator loop: totalWidth += width + 2 for every key, in the order
\* of the iteration.
RECURSIVE TotalWidth(_)
TotalWidth(order) ==
  IF order = <<>> THEN 0
  ELSE columnWidths[order[1]] + 2 + TotalWidth(Tail(order))

\* fmt's %-*s: text, then spaces up to width w.
PadRight(text, w) ==
  IF Len(text) >= w THEN text
  ELSE text \o [i \in 1..(w - Len(text)) |-> " "]

\* fmt's %.1f of x: the nearest number of tenths (a tie goes to the even
\* one, as for every value a float64 holds exactly), printed with its sign.
FormatF1(x) ==
  LET n == Abs(x.n)
      floor == (10 * n) \div x.d
      rest == 10 * n - floor * x.d
      tenths == IF 2 * rest > x.d \/ (2 * rest = x.d /\ floor % 2 = 1)
                THEN floor + 1 ELSE floor
  IN (IF x.n < 0 THEN <<"-">> ELSE <<>>)
       \o ItoaNat(tenths \div 10) \o <<".", Digits[(tenths % 10) + 1]>>

\* strings.Contains(s, sub).
Contains(s, sub) ==
  \E i \in 0..(Len(s) - Len(sub)) : SubSeq(s, i + 1, i + Len(sub)) = sub

\* The color of the loss column of a row.
LossColor(loss) ==
  IF RatLess(FromInt(20), loss) THEN colorRed
  ELSE IF RatLess(FromInt(5), loss) THEN colorYellow
  ELSE colorGreen

\* The host column of a row: the hostname, with the address in brackets
\* when there is one that the hostname does not show.
HostStr(hop) ==
  IF hop.IP # <<>> /\ hop.Hostname # hop.IP /\ ~Contains(hop.Hostname, hop.IP)
  THEN hop.Hostname \o <<" ", "(">> \o hop.IP \o <<")">>
  ELSE hop.Hostname

\* The header line of the table, column by column.
HeaderRow ==
  [hop |-> PadRight(<<"H", "o", "p">>, columnWidths["hop"]),
   loss |-> PadRight(<<"L", "o", "s", "s", "%">>, columnWidths["loss"]),
   snt |-> PadRight(<<"S", "n", "t">>, columnWidths["snt"]),
   last |-> PadRight(<<"L", "a", "s", "t">>, columnWidths["last"]),
   avg |-> PadRight(<<"A", "v", "g">>, columnWidths["avg"]),
   best |-> PadRight(<<"B", "e", "s", "t">>, columnWidths["best"]),
   worst |-> PadRight(<<"W", "r", "s", "t">>, columnWidths["worst"]),
   stdev |-> PadRight(<<"S", "t", "D", "e", "v">>, columnWidths["stdev"]),
   host |-> PadRight(<<"H", "o", "s", "t">>, columnWidths["host"])]

\* The line of the table for one hop, column by column; the loss column is
\* written between lossColor and colorReset.
DataRow(hop) ==
  [hop |-> PadRight(Itoa(hop.Hop), columnWidths["hop"]),
   lossColor |-> LossColor(hop.Loss),
   loss |-> PadRight(FormatF1(hop.Loss), columnWidths["loss"]),
   reset |-> colorReset,
   snt |-> PadRight(Itoa(hop.Sent), columnWidths["snt"]),
   last |-> PadRight(FormatF1(hop.Last), columnWidths["last"]),
   avg |-> PadRight(FormatF1(hop.Avg), columnWidths["avg"]),
   best |-> PadRight(FormatF1(hop.Best), columnWidths["best"]),
   worst |-> PadRight(FormatF1(hop.Worst), columnWidths["worst"]),
   stdev |-> PadRight(FormatF1(hop.StDev), columnWidths["stdev"]),
   host |-> PadRight(HostStr(hop), columnWidths["host"])]

\* colorizeOutput(hops), the range over columnWidths visiting the keys in
\* the given order: the header, the separator of totalWidth dashes, and a
\* row per hop.
colorizeOutput(list, order) ==
  [header |-> HeaderRow,
   separator |-> [i \in 1..TotalWidth(order) |-> "-"],
   rows |-> [j \in 1..Len(list) |-> DataRow(list[j])]]

\* The hop of the largest Loss as it would be if an equal Loss replaced the
\* hop found so far: the latest among equals.
RECURSIVE WorstLossFromLatest(_, _, _)
WorstLossFromLatest(list, i, worstLoss) ==
  IF i > Len(list) THEN worstLoss
  ELSE WorstLossFromLatest(list, i + 1,
         IF RatLess(list[i].Loss, worstLoss.Loss) THEN worstLoss ELSE list[i])

\* The hop of the largest Loss, the earliest among equals.
RECURSIVE WorstLossFrom(_, _, _)
WorstLossFrom(list, i, worstLoss) ==
  IF i > Len(list) THEN worstLoss
  ELSE WorstLossFrom(list, i + 1,
         IF RatLess(worstLoss.Loss, list[i].Loss) THEN list[i] ELSE worstLoss)

\* The hop of the largest Avg, the earliest among equals.
RECURSIVE WorstLatencyFrom(_, _, _)
WorstLatencyFrom(list, i, worstLatency) ==
  IF i > Len(list) THEN worstLatency
  ELSE WorstLatencyFrom(list, i + 1,
         IF RatLess(worstLatency.Avg, list[i].Avg) THEN list[i] ELSE worstLatency)

\* A line written by fmt.Sprintf: the format and its printed arguments.
Line(format, args) == [format |-> format, args |-> args]

\* generateSummary(hops), line by line.
generateSummary(list) ==
  IF Len(list) = 0 THEN <<Line("No route data available.", <<>>)>>
  ELSE LET worstLoss == WorstLossFrom(list, 1, list[1])
           worstLatency == WorstLatencyFrom(list, 1, list[1])
           lastHop == list[Len(list)]
       IN << Line("Summary:", <<>>),
             Line("--------", <<>>),
             IF RatLess(Zero, worstLoss.Loss)
             THEN Line("Worst packet loss at hop %d (%s): %.1f%%",
                       <<Itoa(worstLoss.Hop), worstLoss.Hostname,
                         FormatF1(worstLoss.Loss)>>)
             ELSE Line("No packet loss detected", <<>>),
             Line("Highest average latency at hop %d (%s): %.1f ms",
                  <<Itoa(worstLatency.Hop), worstLatency.Hostname,
                    FormatF1(worstLatency.Avg)>>),
             Line("End-to-end metrics for %s:", <<lastHop.Hostname>>),
             Line("  Average: %.1f ms", <<FormatF1(lastHop.Avg)>>),
             Line("  Best: %.1f ms", <<FormatF1(lastHop.Best)>>),
             Line("  Worst: %.1f ms", <<FormatF1(lastHop.Worst)>>),
             Line("  Standard Deviation: %.1f ms", <<FormatF1(lastHop.StDev)>>) >>

\* ------------------------------------------------------------ hop lists
\* Longest hop list handed to the report writers.
MaxRows == 2
\* Largest probe count of the parses that made those lists.
MaxSent == 5

\* What the records of a parse may tell of the host of hop j: nothing, its
\* address alone (an h record), or its address and its name (h and d).
HostOf(j, kind) ==
  CASE kind = 0 -> [Hostname |-> Unknown, IP |-> <<>>]
    [] kind = 1 -> [Hostname |-> <<"a">> \o Itoa(j), IP |-> <<"a">> \o Itoa(j)]
    [] OTHER -> [Hostname |-> <<"n">> \o Itoa(j), IP |-> <<"a">> \o Itoa(j)]

\* Hop j as parseOutput returns it after cnt probes of which received were
\* answered, every answer taking received milliseconds.
ParsedHop(j, cnt, received) ==
  LET ms == FromInt(received)
      host == HostOf(j, (j + received) % 3)
  IN [NewHop(j, cnt) EXCEPT
        !.Hostname = host.Hostname,
        !.IP = host.IP,
        !.Loss = LossPercent(cnt, received),
        !.Last = ms,
        !.Avg = ms,
        !.Best = ms,
        !.Worst = ms]

\* The numbers of answers of a hop: none, all but one, or all of cnt.
Answered(cnt) == {0, cnt - 1, cnt}

\* The hop lists: hops 1..n of a parse with count cnt.
HopLists ==
  UNION {
    { [j \in 1..n |-> ParsedHop(j, cnt, r[j])] : r \in [1..n -> Answered(cnt)] } :
      n \in 1..MaxRows, cnt \in 1..MaxSent }

InitRender ==
  /\ ParserIdle
  /\ HTTPIdle
  /\ RunIdle
  /\ ConcIdle
  /\ hops \in HopLists
  /\ tables = <<>>
  /\ summaries = <<>>
  /\ orders = <<>>

\* A call of colorizeOutput(hops).
Colorize ==
  /\ Len(tables) < 2
  /\ \E order \in IterationOrders :
       /\ tables' = Append(tables, colorizeOutput(hops, order))
       /\ orders' = Append(orders, order)
  /\ UNCHANGED <<hops, summaries, parserVars, httpVars, runVars, concVars>>

\* A call of generateSummary(hops).
Summarize ==
  /\ Len(summaries) < 2
  /\ summaries' = Append(summaries, generateSummary(hops))
  /\ UNCHANGED <<hops, tables, orders, parserVars, httpVars, runVars, concVars>>

NextRender ==
  \/ Colorize
  \/ Summarize

SpecRender == InitRender /\ [][NextRender]_vars

\* ------------------------------------------------------------ the HTTP handler
\* url.Values.Get: the first value of the parameter, "" when it has none.
Get(values, key) == IF values[key] = <<>> THEN <<>> ELSE values[key][1]

\* strings.ContainsAny(s, chars).
ContainsAny(s, chars) == \E i \in 1..Len(s) : s[i] \in chars

\* The texts strconv.ParseBool accepts as true, and as false.
TrueTexts ==
  {<<"1">>, <<"t">>, <<"T">>, <<"T", "R", "U", "E">>, <<"t", "r", "u", "e">>,
   <<"T", "r", "u", "e">>}

FalseTexts ==
  {<<"0">>, <<"f">>, <<"F">>, <<"F", "A", "L", "S", "E">>,
   <<"f", "a", "l", "s", "e">>, <<"F", "a", "l", "s", "e">>}

\* strconv.ParseBool.
ParseBool(s) ==
  [err |-> s \notin TrueTexts \cup FalseTexts, val |-> s \in TrueTexts]

\* fmt's %v of a bool.
FormatBool(b) ==
  IF b THEN <<"t", "r", "u", "e">> ELSE <<"f", "a", "l", "s", "e">>

\* The check of a count parameter as it would be with count >= 100 refused.
CountErrorFromHundred(countStr) ==
  IF ~IsDecimal(countStr) \/ Atoi(countStr) <= 0
  THEN "invalid count parameter"
  ELSE IF Atoi(countStr) >= 100 THEN "count cannot exceed 100"
  ELSE ""

\* The check of a non-empty count parameter: the message of the error
\* response, "" when there is none.
CountError(countStr) ==
  IF ~IsDecimal(countStr) \/ Atoi(countStr) <= 0
  THEN "invalid count parameter"
  ELSE IF Atoi(countStr) > 100 THEN "count cannot exceed 100"
  ELSE ""

\* The response respondWithError writes.
respondWithError(code, message) ==
  [code |-> code, Status |-> "error", Message |-> Line(message, <<>>)]

\* The response written for a request that passed the checks; no status
\* code is set, so it goes out as 200.
AcceptedResponse(config) ==
  [code |-> 200, Status |-> "accepted",
   Message |-> Line("MTR trace to %s started (count=%d, report=%v)",
                    <<config.Hostname, Itoa(config.Count),
                      FormatBool(config.Report)>>)]

\* The values a request may give for hostname, count and report: none, an
\* empty one, and texts the checks accept or refuse.
HostnameValues ==
  {<<>>, << <<>> >>, << <<"h">> >>, << <<"h", ";", "x">> >>, << <<"&">> >>,
   << <<"h", "|">> >>}

CountValues ==
  {<<>>, << <<>> >>, << <<"0">> >>, << <<"1">> >>, << <<"1", "0", "0">> >>,
   << <<"1", "0", "1">> >>, << <<"-", "1">> >>, << <<"x">> >>}

ReportValues ==
  {<<>>, << <<>> >>, << <<"t", "r", "u", "e">> >>, << <<"F">> >>,
   << <<"y", "e", "s">> >>}

InitHTTP ==
  /\ ParserIdle
  /\ RenderIdle
  /\ RunIdle
  /\ ConcIdle
  /\ query \in [hostname : HostnameValues, count : CountValues,
                report : ReportValues]
  /\ handler = "hostname"
  /\ cfg = ZeroConfig
  /\ responses = <<>>
  /\ goroutines = <<>>
  /\ console = <<>>

\* respondWithError(w, code, message); return.
Refuse(code, message) ==
  /\ responses' = Append(responses, respondWithError(code, message))
  /\ handler' = "returned"
  /\ UNCHANGED cfg

\* The hostname parameter and its checks.
ReadHostname ==
  /\ handler = "hostname"
  /\ LET hostname == Get(query, "hostname")
     IN IF hostname = <<>>
        THEN Refuse(400, "hostname parameter is required")
        ELSE IF ContainsAny(hostname, {";", "&", "|"})
        THEN Refuse(400, "invalid hostname format")
        ELSE /\ cfg' = [cfg EXCEPT !.Hostname = hostname]
             /\ handler' = "count"
             /\ UNCHANGED responses
  /\ UNCHANGED <<query, goroutines, console, parserVars, renderVars, runVars, concVars>>

\* The count parameter: 20 when it is empty, else checked.
ReadCount ==
  /\ handler = "count"
  /\ LET countStr == Get(query, "count")
     IN IF countStr = <<>>
        THEN /\ cfg' = [cfg EXCEPT !.Count = 20]
             /\ handler' = "report"
             /\ UNCHANGED responses
        ELSE IF CountError(countStr) # ""
        THEN Refuse(400, CountError(countStr))
        ELSE /\ cfg' = [cfg EXCEPT !.Count = Atoi(countStr)]
             /\ handler' = "report"
             /\ UNCHANGED responses
  /\ UNCHANGED <<query, goroutines, console, parserVars, renderVars, runVars, concVars>>

\* The report parameter: false when it is empty, else parsed.
ReadReport ==
  /\ handler = "report"
  /\ LET reportStr == Get(query, "report")
     IN IF reportStr = <<>>
        THEN /\ cfg' = [cfg EXCEPT !.Report = FALSE]
             /\ handler' = "respond"
             /\ UNCHANGED responses
        ELSE IF ParseBool(reportStr).err
        THEN Refuse(400, "invalid report parameter")
        ELSE /\ cfg' = [cfg EXCEPT !.Report = ParseBool(reportStr).val]
             /\ handler' = "respond"
             /\ UNCHANGED responses
  /\ UNCHANGED <<query, goroutines, console, parserVars, renderVars, runVars, concVars>>

\* The "accepted" response.
Respond ==
  /\ handler = "respond"
  /\ responses' = Append(responses, AcceptedResponse(cfg))
  /\ handler' = "spawn"
  /\ UNCHANGED <<query, cfg, goroutines, console, parserVars, renderVars, runVars, concVars>>

\* go func() { ... mtr.Run(ctx, cfg) ... }(), and the return of the handler.
Spawn ==
  /\ handler = "spawn"
  /\ goroutines' = Append(goroutines, cfg)
  /\ handler' = "returned"
  /\ UNCHANGED <<query, cfg, responses, console, parserVars, renderVars, runVars, concVars>>

\* How a background run can end: mtr.Run returned a result, returned an
\* error, or was cut short by the five-minute deadline of its context (which
\* Run reports as an error too).
Outcomes == {"completed", "failed", "deadline exceeded"}

\* A variant of WrittenByRun that reports the outcome of the run to the
\* client.
WrittenByRunReported(config, outcome) ==
  LET host == config.Hostname
  IN << [code |-> 200, Status |-> outcome,
         Message |-> Line("MTR trace to %s", <<host>>)] >>

\* What the background run writes to w: nothing, whatever its outcome.  The
\* closure uses hostname, count, report and cfg only; it logs and prints.
WrittenByRun(config, outcome) == <<>>

\* What the background run prints to the console when it ends.
PrintedByRun(config, outcome) ==
  IF outcome = "completed"
  THEN Line("MTR trace to %s completed: %s", <<config.Hostname, "result.Output">>)
  ELSE Line("MTR trace to %s failed: %v", <<config.Hostname, outcome>>)

\* The body of the goroutine: the oldest background run that has not ended
\* yet ends, with any outcome, and prints it.
BackgroundRun ==
  /\ Len(console) < Len(goroutines)
  /\ \E outcome \in Outcomes :
       LET config == goroutines[Len(console) + 1]
       IN /\ console' = Append(console, PrintedByRun(config, outcome))
          /\ responses' = responses \o WrittenByRun(config, outcome)
  /\ UNCHANGED <<query, handler, cfg, goroutines, parserVars, renderVars,
                 runVars, concVars>>

NextHTTP ==
  \/ ReadHostname
  \/ ReadCount
  \/ ReadReport
  \/ Respond
  \/ Spawn
  \/ BackgroundRun

SpecHTTP == InitHTTP /\ [][NextHTTP]_vars

\* ------------------------------------------------------------ Run
RECURSIVE ScanLines(_, _, _)
\* The loop over the lines, from the maps st.
ScanLines(st, lines, cnt) ==
  IF lines = <<>> THEN st
  ELSE ScanLines(ParseLine(st, lines[1], cnt), Tail(lines), cnt)

\* The maps at the start of parseOutput.
EmptyMaps == [hopMap |-> EmptyMap, seqMap |-> EmptyMap, receivedPings |-> EmptyMap]

\* parseOutput(output, count), the output given as its lines.
parseOutput(output, cnt) ==
  LET st == ScanLines(EmptyMaps, output, cnt)
  IN Finalize(st.hopMap, st.receivedPings, cnt)

\* The texts Run looks for in the output of the probe.
CommandNotFound == <<"c", "o", "m", "m", "a", "n", "d", " ", "n", "o", "t", " ", "f", "o", "u", "n", "d">>

PermissionDenied == <<"s", "o", "c", "k", "e", "t", ":", " ", "P", "e", "r", "m", "i", "s", "s", "i", "o", "n", " ", "d", "e", "n", "i", "e", "d">>

FailureToResolve == <<"F", "a", "i", "l", "u", "r", "e", " ", "t", "o", " ", "r", "e", "s", "o", "l", "v", "e">>

\* strings.Contains(outputStr, text) for a text without a line break.
OutputContains(output, text) ==
  \E i \in 1..Len(output) : Contains(output[i], text)

\* The test of the probe's error as it would be if only a non-zero exit
\* status counted, a probe killed at the deadline passing for a success.
FailedOnExitOnly(e) == e = "exit status 1"

\* err != nil
Failed(e) == e # "nil"

\* The error Run returns when the probe failed.
FailureError(e, output) ==
  IF OutputContains(output, CommandNotFound)
  THEN Line("mtr command not found - please install mtr using 'brew install mtr'", <<>>)
  ELSE IF OutputContains(output, PermissionDenied)
  THEN Line("permission denied - try running with sudo", <<>>)
  ELSE IF output # <<>>
  THEN Line("mtr error: %v, output: %s", <<e, output>>)
  ELSE Line("mtr error: %v", <<e>>)

\* The error Run returns when the parse found no hop.
NoDataError(config, output) ==
  IF OutputContains(output, FailureToResolve)
  THEN Line("failed to resolve hostname: %s", <<config.Hostname>>)
  ELSE IF OutputContains(output, PermissionDenied)
  THEN Line("permission denied - try running with sudo", <<>>)
  ELSE IF OutputContains(output, CommandNotFound)
  THEN Line("mtr command not found - please install mtr using 'brew install mtr'", <<>>)
  ELSE Line("no route data available\nRaw output:\n%s", <<output>>)

\* The errors of Run that say that the parse found no hop.
NoDataFormats ==
  {"failed to resolve hostname: %s",
   "permission denied - try running with sudo",
   "mtr command not found - please install mtr using 'brew install mtr'",
   "no route data available\nRaw output:\n%s"}

formatHeader == Line("MTR Report", <<>>)

\* The legend of the colors, the last lines of formatHeaderExplanation.
formatHeaderExplanation ==
  <<Line("Red     : High packet loss (>=20%)", <<>>),
    Line("Yellow  : High latency (>=100ms)", <<>>)>>

formatHostInfo(hostname) == Line("Target Host: %s", <<hostname>>)

\* The Result of a run that found the hops list, the table written with
\* the given iteration order.
Report(config, list, order) ==
  [Output |-> [header |-> formatHeader,
               explanation |-> formatHeaderExplanation,
               hostInfo |-> formatHostInfo(config.Hostname),
               table |-> colorizeOutput(list, order),
               summary |-> generateSummary(list)],
   Error |-> <<>>]

\* The values of the -count flag: its default 20, the documented limits 1
\* and 100, and values outside them.
CliCounts == {-1, 0, 1, 20, 100, 101}

\* The combined output of the probe: nothing, route records, records cut
\* short, a line of one field, and the messages Run looks for.
ProbeOutputs ==
  {<<>>,
   <<XLine(<<"0">>, <<"3">>), PLine(<<"0">>, <<"1", "0", "0", "0">>, <<"3">>)>>,
   <<HLine(<<"0">>, <<"a">>), XLine(<<"1">>, <<"3">>)>>,
   <<<<"T", "e", "r", "m", "i", "n", "a", "t", "e", "d">>>>,
   <<<<"s", "u", "d", "o", ":", " ">> \o CommandNotFound>>,
   <<<<"m", "t", "r", ":", " ">> \o FailureToResolve>>}

\* The errors of cmd.CombinedOutput: none, a non-zero exit status, and the
\* kill at the deadline or cancellation of ctx.
ProbeErrors == {"nil", "exit status 1", "signal: killed"}

InitRun ==
  /\ ParserIdle
  /\ RenderIdle
  /\ ConcIdle
  /\ query = [hostname |-> <<>>, count |-> <<>>, report |-> <<>>]
  /\ handler = "idle"
  /\ responses = <<>>
  /\ goroutines = <<>>
  /\ console = <<>>
  /\ cfg = ZeroConfig
  /\ flags \in [Hostname : {<<>>, <<"h">>}, Count : CliCounts, Report : BOOLEAN]
  /\ cli = "start"
  /\ run = "idle"
  /\ outputStr = <<>>
  /\ err = "nil"
  /\ parses = <<>>
  /\ ret = <<>>

\* runCLI without a host: the message, the usage, os.Exit(1).
RequireHost ==
  /\ cli = "start"
  /\ flags.Hostname = <<>>
  /\ cli' = "exit 1"
  /\ UNCHANGED <<flags, cfg, run, outputStr, err, parses, ret, hops>>
  /\ UNCHANGED <<query, handler, responses, goroutines, console>>
  /\ UNCHANGED <<tables, summaries, orders, parserVars, concVars>>

\* runCLI with a host: the Config of the flags as they are, and mtr.Run.
CallRun ==
  /\ cli = "start"
  /\ flags.Hostname # <<>>
  /\ cfg' = [Hostname |-> flags.Hostname, Count |-> flags.Count,
             Report |-> flags.Report]
  /\ cli' = "running"
  /\ run' = "called"
  /\ UNCHANGED <<flags, outputStr, err, parses, ret, hops>>
  /\ UNCHANGED <<query, handler, responses, goroutines, console>>
  /\ UNCHANGED <<tables, summaries, orders, parserVars, concVars>>

\* The probe is run under ctx and its combined output collected.
Execute ==
  /\ run = "called"
  /\ err' \in ProbeErrors
  /\ outputStr' \in ProbeOutputs
  /\ run' = "executed"
  /\ UNCHANGED <<flags, cfg, cli, parses, ret, hops>>
  /\ UNCHANGED <<query, handler, responses, goroutines, console>>
  /\ UNCHANGED <<tables, summaries, orders, parserVars, concVars>>

\* if err != nil: the error is returned.
ReturnFailure ==
  /\ run = "executed"
  /\ Failed(err)
  /\ ret' = <<[result |-> <<>>, err |-> <<FailureError(err, outputStr)>>]>>
  /\ run' = "returned"
  /\ UNCHANGED <<flags, cfg, cli, outputStr, err, parses, hops>>
  /\ UNCHANGED <<query, handler, responses, goroutines, console>>
  /\ UNCHANGED <<tables, summaries, orders, parserVars, concVars>>

\* hops := parseOutput(outputStr, cfg.Count)
Parse ==
  /\ run = "executed"
  /\ ~Failed(err)
  /\ hops' = parseOutput(outputStr, cfg.Count)
  /\ parses' = Append(parses, outputStr)
  /\ run' = "parsed"
  /\ UNCHANGED <<flags, cfg, cli, outputStr, err, ret>>
  /\ UNCHANGED <<query, handler, responses, goroutines, console>>
  /\ UNCHANGED <<tables, summaries, orders, parserVars, concVars>>

\* if len(hops) == 0: the error that says so is returned.
ReturnNoData ==
  /\ run = "parsed"
  /\ Len(hops) = 0
  /\ ret' = <<[result |-> <<>>, err |-> <<NoDataError(cfg, outputStr)>>]>>
  /\ run' = "returned"
  /\ UNCHANGED <<flags, cfg, cli, outputStr, err, parses, hops>>
  /\ UNCHANGED <<query, handler, responses, goroutines, console>>
  /\ UNCHANGED <<tables, summaries, orders, parserVars, concVars>>

\* The report is put together and returned.
ReturnReport ==
  /\ run = "parsed"
  /\ Len(hops) # 0
  /\ \E order \in IterationOrders :
       ret' = <<[result |-> <<Report(cfg, hops, order)>>, err |-> <<>>]>>
  /\ run' = "returned"
  /\ UNCHANGED <<flags, cfg, cli, outputStr, err, parses, hops>>
  /\ UNCHANGED <<query, handler, responses, goroutines, console>>
  /\ UNCHANGED <<tables, summaries, orders, parserVars, concVars>>

\* runCLI after Run: the error and os.Exit(1), or the report.
PrintOrExit ==
  /\ cli = "running"
  /\ run = "returned"
  /\ cli' = IF ret[1].err # <<>> THEN "exit 1" ELSE "printed"
  /\ UNCHANGED <<flags, cfg, run, outputStr, err, parses, ret, hops>>
  /\ UNCHANGED <<query, handler, responses, goroutines, console>>
  /\ UNCHANGED <<tables, summaries, orders, parserVars, concVars>>

NextRun ==
  \/ RequireHost
  \/ CallRun
  \/ Execute
  \/ ReturnFailure
  \/ Parse
  \/ ReturnNoData
  \/ ReturnReport
  \/ PrintOrExit

SpecRun == InitRun /\ [][NextRun]_vars

\* ------------------------------------------------------------ concurrent runs
\* Number of background runs executing at the same time.
NumRuns == 2

Runs == 1..NumRuns

\* The raw outputs of the probes of the runs.
RunOutputs ==
  {<<XLine(<<"0">>, <<"3">>), PLine(<<"0">>, <<"1", "0", "0", "0">>, <<"3">>)>>,
   <<HLine(<<"0">>, <<"a">>), XLine(<<"1">>, <<"3">>)>>,
   <<XLine(<<"1">>, <<"4">>), PLine(<<"1">>, <<"3", "0", "0", "0">>, <<"4">>)>>}

\* The Config of run r: the requests differ in their counts.
ConfigOf(r) == [Hostname |-> <<"h">>, Count |-> r, Report |-> TRUE]

\* The maps as they would be if hopMap, seqMap and receivedPings were
\* variables of the package, those of the first run serving every run.
SharedMaps(all, r) == all[1].maps

\* The maps run r works on: hopMap, seqMap and receivedPings are made by
\* each call of parseOutput for itself.
MapsOf(all, r) == all[r].maps

InitConc ==
  /\ ParserIdle
  /\ RenderIdle
  /\ HTTPIdle
  /\ RunIdle
  /\ \E output \in [Runs -> RunOutputs] :
       runs = [r \in Runs |->
                 [cfg |-> ConfigOf(r), output |-> output[r], read |-> 0,
                  maps |-> EmptyMaps, pc |-> "scan", hops |-> <<>>,
                  report |-> <<>>, overlapped |-> FALSE]]

\* Another run than r is in the middle of its output.
OthersScanning(r) ==
  \E o \in Runs \ {r} : runs[o].pc = "scan" /\ runs[o].read > 0

\* The parse of run r takes the next line of its probe's output.
ReadLine(r) ==
  /\ runs[r].pc = "scan"
  /\ runs[r].read < Len(runs[r].output)
  /\ runs' = [runs EXCEPT ![r] =
                [@ EXCEPT !.read = @ + 1,
                          !.maps = ParseLine(MapsOf(runs, r),
                                             runs[r].output[runs[r].read + 1],
                                             runs[r].cfg.Count),
                          !.overlapped = @ \/ OthersScanning(r)]]
  /\ UNCHANGED <<parserVars, renderVars, httpVars, runVars>>

\* Run r is through its output: the post-pass, the hop list and the report.
ReturnHops(r) ==
  /\ runs[r].pc = "scan"
  /\ runs[r].read = Len(runs[r].output)
  /\ LET m == MapsOf(runs, r)
         list == Finalize(m.hopMap, m.receivedPings, runs[r].cfg.Count)
     IN \E order \in IterationOrders :
          runs' = [runs EXCEPT ![r] =
                     [@ EXCEPT !.pc = "done",
                               !.hops = list,
                               !.report =
                                 IF list = <<>> THEN <<>>
                                 ELSE <<Report(runs[r].cfg, list, order)>>]]
  /\ UNCHANGED <<parserVars, renderVars, httpVars, runVars>>

StepScan == \E r \in Runs : ReadLine(r)

StepReturn == \E r \in Runs : ReturnHops(r)

NextConc ==
  \/ StepScan
  \/ StepReturn

SpecConc == InitConc /\ [][NextConc]_vars

\* ------------------------------------------------------------ reference notions
\* The key under which a returned hop is kept in the maps.
KeyOf(hop) == Itoa(hop.Hop)

\* A latency field that is a number.
Parseable(l) == ~ParseFloat(l).err

\* The samples attributed to hop k through the sequence-id binding, in ms.
Samples(k) ==
  LET ls == SelectSeq(Logged(attributed, k), Parseable)
  IN [j \in 1..Len(ls) |-> RatDiv(ParseFloat(ls[j]).val, FromInt(1000))]

RECURSIVE RatSum(_)
RatSum(v) == IF v = <<>> THEN Zero ELSE RatAdd(v[1], RatSum(Tail(v)))

Mean(v) == RatDiv(RatSum(v), FromInt(Len(v)))

MinOf(v) == CHOOSE x \in {v[j] : j \in 1..Len(v)} :
              \A j \in 1..Len(v) : ~RatLess(v[j], x)

MaxOf(v) == CHOOSE x \in {v[j] : j \in 1..Len(v)} :
              \A j \in 1..Len(v) : ~RatLess(x, v[j])

\* The hops of the map with a positive index.
PositiveHops == {k \in DOMAIN hopMap : hopMap[k].Hop >= 1}

\* ------------------------------------------------------------ claims
\* C1: when the parse is done, every returned hop to which at least one
\* parseable sample was attributed through the sequence-id binding has
\* Avg = the mean, Best = the minimum and Worst = the maximum of those
\* samples, whatever index the p lines printed.
C1_StatsOfAttributedSamples ==
  pc = "done" =>
    \A j \in 1..Len(result) :
      LET v == Samples(KeyOf(result[j]))
      IN Len(v) >= 1 =>
           /\ result[j].Avg = Mean(v)
           /\ result[j].Best = MinOf(v)
           /\ result[j].Worst = MaxOf(v)

\* C2: the received counter of every hop equals the number of p records
\* whose sequence id was bound to that hop when they were processed (the
\* counter of the bound hop is the one incremented, not the printed one's).
C2_ReceivedCountsBoundHop ==
  \A k \in DOMAIN hopMap :
    GetInt(receivedPings, k) = Len(Logged(attributed, k))

\* C3: when the output held no p record, every returned hop has received = 0
\* and Loss = 100, for any configured count.
C3_NoPingsFullLoss ==
  (pc = "done" /\ ~sawP) =>
    \A j \in 1..Len(result) :
      /\ GetInt(receivedPings, KeyOf(result[j])) = 0
      /\ result[j].Loss = FromInt(100)

C3_Witness ==
  /\ pc = "done"
  /\ ~sawP
  /\ Len(result) >= 2
  /\ seqMap # EmptyMap
  /\ count > 0

\* C4: when the parse is done, for a configured count of 0 or more, every
\* returned hop has Sent = count and Loss = 100 * (Sent - received) / Sent,
\* and Loss = 100 when the count is 0; so received = Sent gives 0 and
\* received = 0 gives 100.
C4_LossFormula ==
  (pc = "done" /\ count >= 0) =>
    \A j \in 1..Len(result) :
      LET received == GetInt(receivedPings, KeyOf(result[j]))
      IN /\ result[j].Sent = count
         /\ result[j].Loss =
              IF count = 0 THEN FromInt(100)
              ELSE Rat(100 * (result[j].Sent - received), result[j].Sent)
         /\ (count > 0 /\ received = result[j].Sent) => result[j].Loss = Zero
         /\ (count > 0 /\ received = 0) => result[j].Loss = FromInt(100)

\* A parse with a hop that answered every probe (Loss 0) and a hop that
\* answered none (Loss 100).
C4_Witness ==
  /\ pc = "done"
  /\ count > 0
  /\ \E i, j \in 1..Len(result) :
       /\ GetInt(receivedPings, KeyOf(result[i])) = count
       /\ result[i].Loss = Zero
       /\ GetInt(receivedPings, KeyOf(result[j])) = 0
       /\ result[j].Loss = FromInt(100)

\* C5: when a hop with index >= 1 exists, the lowest-indexed such hop is
\* the first element of the result, whatever its address or hostname.
C5_FirstHopKept ==
  (pc = "done" /\ PositiveHops # {}) =>
    LET first == CHOOSE k \in PositiveHops :
                   \A o \in PositiveHops : hopMap[k].Hop <= hopMap[o].Hop
    IN /\ result # <<>>
       /\ result[1] = hopMap[first]

\* Two hops of positive index and one of index 0, collapsed to one entry.
C5_Witness ==
  /\ pc = "done"
  /\ Cardinality(PositiveHops) >= 2
  /\ Cardinality(DOMAIN hopMap) > Cardinality(PositiveHops)
  /\ Len(result) = 1

\* C6 as claimed: the result never holds two adjacent entries with the same
\* address or the same hostname.
C6_NoAdjacentEqual ==
  pc = "done" =>
    \A j \in 1..(Len(result) - 1) :
      /\ result[j + 1].IP # result[j].IP
      /\ result[j + 1].Hostname # result[j].Hostname

\* C6 as amended: the result never holds two adjacent entries with the same
\* non-empty address, or with the same hostname other than "???".
C6_NoAdjacentEqualKnown ==
  pc = "done" =>
    \A j \in 1..(Len(result) - 1) :
      /\ ~(result[j + 1].IP # <<>> /\ result[j + 1].IP = result[j].IP)
      /\ ~(result[j + 1].Hostname # Unknown
           /\ result[j + 1].Hostname = result[j].Hostname)

\* Two hops with different addresses and the same DNS name, collapsed.
C6_Witness ==
  /\ pc = "done"
  /\ \E k, o \in PositiveHops :
       /\ hopMap[k].Hop + 1 = hopMap[o].Hop
       /\ hopMap[k].IP # hopMap[o].IP
       /\ hopMap[o].Hostname # Unknown
       /\ hopMap[k].Hostname = hopMap[o].Hostname
       /\ \A j \in 1..Len(result) : result[j].Hop # hopMap[o].Hop

\* What parseOutput would return if the output ended here.
ResultNow == Finalize(hopMap, receivedPings, count)

\* The latency statistics of the hops, by key.
Stats(hm) ==
  [k \in DOMAIN hm |->
     <<hm[k].Last, hm[k].Avg, hm[k].Best, hm[k].Worst, hm[k].StDev>>]

\* C7: a p record whose sequence id no x record has bound changes nothing:
\* the counters and the statistics of every hop, and the hop list returned,
\* are what they are without the line.
C7_UnboundPingChangesNothing ==
  [][\A i \in HopFields, l \in Lats, s \in Seqs :
       (s \notin DOMAIN xLog /\ PRecord(i, l, s)) =>
         /\ receivedPings' = receivedPings
         /\ \A k \in DOMAIN hopMap : Stats(hopMap')[k] = Stats(hopMap)[k]
         /\ ResultNow' = ResultNow]_vars

\* C8: a line of an unknown record type, or of fewer than two fields,
\* creates and modifies no hop: the hop list returned is what it is without
\* the line.
C8_IgnoredLinesChangeNothing ==
  [][(ProcessOther \/ SkipShort) =>
       /\ hopMap' = hopMap
       /\ ResultNow' = ResultNow]_vars

\* C9: a p record with a bound sequence id and a latency that is no number
\* increments no received counter and changes no hop's loss or statistics.
C9_UnparseablePingNotCounted ==
  [][\A i \in HopFields, l \in Lats, s \in Seqs :
       (s \in DOMAIN xLog /\ ~Parseable(l) /\ PRecord(i, l, s)) =>
         /\ receivedPings' = receivedPings
         /\ \A k \in DOMAIN hopMap : Stats(hopMap')[k] = Stats(hopMap)[k]
         /\ \A j \in 1..Len(ResultNow) :
              \E h \in 1..Len(ResultNow') :
                /\ ResultNow'[h].Hop = ResultNow[j].Hop
                /\ ResultNow'[h].Loss = ResultNow[j].Loss]_vars

C11_BestWorstAndNoSample ==
  pc = "done" =>
    \A j \in 1..Len(result) :
      IF Samples(KeyOf(result[j])) # <<>>
      THEN ~RatLess(result[j].Worst, result[j].Best)
      ELSE /\ result[j].Best = Zero
           /\ result[j].Worst = Zero
           /\ result[j].Loss = FromInt(100)

\* The indices of the hops that received at least one record.
HopIndices == {hopMap[k].Hop : k \in DOMAIN hopMap}

\* C12 as claimed: the hop indices that received at least one record are
\* exactly 1..max, without a gap.
C12_IndicesContiguous ==
  HopIndices = 1..MaxHopOf(hopMap)

\* C12 as amended: the positive hop indices that received at least one
\* record lie in 1..max, max being one of them, and every returned hop is
\* one of them; an index below max that no record named is simply absent.
C12_IndicesWithinMax ==
  LET positive == {h \in HopIndices : h >= 1}
  IN /\ positive \subseteq 1..MaxHopOf(hopMap)
     /\ positive # {} => MaxHopOf(hopMap) \in positive
     /\ pc = "done" => \A j \in 1..Len(result) : result[j].Hop \in positive

\* A parse whose records all name the second hop: the result is that hop
\* alone, and index 1 is a gap.
C12_Witness ==
  /\ pc = "done"
  /\ HopIndices = {2}
  /\ Len(result) = 1
  /\ result[1].Hop = 2

\* The mean of the squared distances of the values of v to their mean.
PopulationVariance(v) ==
  LET m == Mean(v)
  IN RatDiv(RatSum([j \in 1..Len(v) |-> RatMul(RatSub(v[j], m), RatSub(v[j], m))]),
            FromInt(Len(v)))

\* The same sum divided by one less than the number of values.
SampleVariance(v) ==
  LET m == Mean(v)
  IN RatDiv(RatSum([j \in 1..Len(v) |-> RatMul(RatSub(v[j], m), RatSub(v[j], m))]),
            FromInt(Len(v) - 1))

\* C13: the StDev of a hop with two or more samples is the standard
\* deviation of all its samples (its square is their population variance or
\* their sample variance), and the StDev of a hop with fewer is 0.
C13_StDevOverAllSamples ==
  \A k \in DOMAIN hopMap :
    LET v == Samples(k)
        sd == hopMap[k].StDev
    IN IF Len(v) >= 2
       THEN RatMul(sd, sd) \in {PopulationVariance(v), SampleVariance(v)}
       ELSE sd = Zero

\* C14: rendering is a function of the hop list alone.  No call of
\* colorizeOutput or generateSummary changes the list; all calls of
\* colorizeOutput on it return the same table, whatever the order in which
\* each iterated over columnWidths; and all calls of generateSummary on it
\* return the same summary.
C14_RenderingPure ==
  [][/\ hops' = hops
     /\ \A i, j \in 1..Len(tables') : tables'[i] = tables'[j]
     /\ \A i, j \in 1..Len(summaries') : summaries'[i] = summaries'[j]]_vars

\* Two calls of each writer on a list of two hops or more, the two calls of
\* colorizeOutput having iterated over columnWidths in different orders.
C14_Witness ==
  /\ Len(hops) >= 2
  /\ Len(tables) = 2
  /\ orders[1] # orders[2]
  /\ tables[1].rows # <<>>
  /\ Len(summaries) = 2

\* C17: every row of a hop whose loss is 10% or more has the red color on
\* its loss column.
C17_RedFromTenPercent ==
  \A t \in 1..Len(tables) :
    \A j \in 1..Len(hops) :
      ~RatLess(hops[j].Loss, FromInt(10)) =>
        tables[t].rows[j].lossColor = colorRed

\* C18: every row of a hop whose loss is 20% or more, exactly 20% included,
\* has the red color on its loss column, and every row has exactly one of
\* the colors red, yellow and green.
C18_RedFromTwentyPercent ==
  \A t \in 1..Len(tables) :
    \A j \in 1..Len(hops) :
      /\ ~RatLess(hops[j].Loss, FromInt(20)) =>
           tables[t].rows[j].lossColor = colorRed
      /\ tables[t].rows[j].lossColor \in {colorRed, colorYellow, colorGreen}

\* The text s is an integer from lo to hi.
IsIntegerIn(s, lo, hi) ==
  IsDecimal(s) /\ DecimalVal(s) >= lo /\ DecimalVal(s) <= hi

\* The request names a host: a hostname value that is not empty and holds
\* none of ; & |.
NamesHost ==
  /\ query.hostname # <<>>
  /\ query.hostname[1] # <<>>
  /\ \A i \in 1..Len(query.hostname[1]) :
       query.hostname[1][i] \notin {";", "&", "|"}

\* A probe run was started for the request.
RunStarted == goroutines # <<>>

\* The request was answered with the error response and no run was started.
Refused ==
  /\ goroutines = <<>>
  /\ Len(responses) = 1
  /\ responses[1].code = 400
  /\ responses[1].Status = "error"

\* C15 as claimed: when the handler has returned, a probe run was started
\* if and only if the hostname is not empty and holds none of ; & |, the
\* count is absent or an integer in 1..100, and report is absent or a valid
\* boolean; every other request got the error response (400, "error") and
\* no run.
C15_RunIffValid ==
  handler = "returned" =>
    LET valid ==
          /\ NamesHost
          /\ \/ query.count = <<>>
             \/ IsIntegerIn(query.count[1], 1, 100)
          /\ \/ query.report = <<>>
             \/ query.report[1] \in TrueTexts \cup FalseTexts
    IN /\ RunStarted <=> valid
       /\ ~valid => Refused

\* C15 as amended: the same, a count or report parameter given with an
\* empty value counting as absent.
C15_RunIffValidOrEmpty ==
  handler = "returned" =>
    LET valid ==
          /\ NamesHost
          /\ \/ query.count \in {<<>>, << <<>> >>}
             \/ IsIntegerIn(query.count[1], 1, 100)
          /\ \/ query.report \in {<<>>, << <<>> >>}
             \/ query.report[1] \in TrueTexts \cup FalseTexts
    IN /\ RunStarted <=> valid
       /\ ~valid => Refused

\* A request with count=100 and an empty report value, answered "accepted"
\* and followed by one background run with count 100.
C15_Witness ==
  /\ handler = "returned"
  /\ query.count = << <<"1", "0", "0">> >>
  /\ query.report = << <<>> >>
  /\ Len(goroutines) = 1
  /\ goroutines[1].Count = 100
  /\ responses[Len(responses)].Status = "accepted"

\* C16 as claimed: the command line hands a count to the core, and a probe
\* is run, only when the count is within the documented range 1..100.
C16_CountCheckedBeforeRun ==
  run # "idle" => (cfg.Count >= 1 /\ cfg.Count <= 100)

\* C19: Run returns exactly one of a report and an error; a report only
\* when the probe succeeded and the parse of its output found a hop; one of
\* the no-data errors when the probe succeeded and the parse found none;
\* and, when the probe failed or was killed at the deadline, an error, with
\* parseOutput never applied to the output.
C19_ReportOrError ==
  run = "returned" =>
    /\ Len(ret) = 1
    /\ (ret[1].result = <<>>) # (ret[1].err = <<>>)
    /\ ret[1].result # <<>> =>
         /\ err = "nil"
         /\ parseOutput(outputStr, cfg.Count) # <<>>
    /\ (err = "nil" /\ parseOutput(outputStr, cfg.Count) = <<>>) =>
         /\ ret[1].err # <<>>
         /\ ret[1].err[1].format \in NoDataFormats
    /\ err # "nil" =>
         /\ ret[1].err # <<>>
         /\ parses = <<>>

\* A probe killed at the deadline after it had printed route records: Run
\* has returned an error and parsed nothing.
C19_Witness ==
  /\ run = "returned"
  /\ err = "signal: killed"
  /\ \E i \in 1..Len(outputStr) : Fields(outputStr[i])[1] = <<"p">>
  /\ parses = <<>>
  /\ ret[1].result = <<>>
  /\ ret[1].err # <<>>

\* What a run with the Config config produces when it executes alone on the
\* raw output: its hop list and, if that is not empty, its report.
Alone(config, output) ==
  LET list == parseOutput(output, config.Count)
  IN [hops |-> list,
      report |-> IF list = <<>> THEN <<>>
                 ELSE <<Report(config, list, ColumnKeys)>>]

\* C20: runs executing at the same time are isolated.  Every step changes
\* the state of one run and of no other, and a run that returns has the hop
\* list and the report it produces alone on its raw output with its count,
\* however the runs were interleaved.
C20_RunsIsolated ==
  [][/\ \E r \in Runs : \A o \in Runs \ {r} : runs'[o] = runs[o]
     /\ \A r \in Runs :
          (runs[r].pc = "scan" /\ runs'[r].pc = "done") =>
            /\ runs'[r].hops = Alone(runs[r].cfg, runs[r].output).hops
            /\ runs'[r].report = Alone(runs[r].cfg, runs[r].output).report]_vars

\* Two runs on different outputs, each of which read a line while the
\* other was in the middle of its own output, and which returned different
\* hop lists.
C20_Witness ==
  /\ \A r \in Runs : runs[r].pc = "done"
  /\ runs[1].overlapped
  /\ runs[2].overlapped
  /\ runs[1].output # runs[2].output
  /\ runs[1].hops # <<>>
  /\ runs[2].hops # <<>>
  /\ runs[1].hops # runs[2].hops

\* The "accepted" response has been written to w.
Accepted ==
  \E i \in 1..Len(responses) : responses[i].Status = "accepted"

\* C21: for every valid request the "accepted" response is written before
\* the background run starts (a run is started only with that response
\* already written, and no response is written once a run exists), exactly
\* one background run is started per accepted request (never a second one,
\* and one with the request's Config by the time the handler has returned),
\* and the responses are the same whatever the outcome of the run: a step
\* in which a run ends leaves them as they were.
C21_AcceptedBeforeRunAndIndependent ==
  [][/\ goroutines' # goroutines => (Accepted /\ responses' = responses)
     /\ responses' # responses => (goroutines = <<>> /\ console = <<>>)
     /\ console' # console => responses' = responses
     /\ Len(goroutines') <= 1
     /\ (handler' = "returned" /\ Accepted') =>
          (goroutines' = <<cfg'>> /\ responses' = <<AcceptedResponse(cfg')>>)
    ]_vars

\* An accepted request whose background run has failed: the one response is
\* still the "accepted" one.
C21_Witness ==
  /\ handler = "returned"
  /\ Len(goroutines) = 1
  /\ Len(console) = 1
  /\ console[1].format = "MTR trace to %s failed: %v"
  /\ Len(responses) = 1
  /\ responses[1].Status = "accepted"

\* The hostname of the hop of the h and d records, "???" before any record.
NamedHost ==
  IF <<"1">> \in DOMAIN hopMap THEN hopMap[<<"1">>].Hostname ELSE Unknown

RECURSIVE Squeeze(_)
\* The words of a text with one space between them: a space that follows a
\* space is dropped.
Squeeze(t) ==
  IF Len(t) < 2 THEN t
  ELSE IF t[1] = " " /\ t[2] = " " THEN Squeeze(Tail(t))
  ELSE <<t[1]>> \o Squeeze(Tail(t))

\* A d record has been consumed.
SeenD == \E k \in 1..Len(records) : records[k].type = "d"

\* Each h record sets the address to its value, and the hostname to that
\* address only if the hostname is still "???"; each d record overwrites the
\* hostname with its fields joined by single spaces.
RecordsApplied ==
  records' # records =>
    LET r == records'[Len(records')]
        hop == hopMap'[<<"1">>]
    IN IF r.type = "h"
       THEN /\ hop.IP = r.value
            /\ hop.Hostname = IF NamedHost = Unknown THEN r.value ELSE NamedHost
       ELSE hop.Hostname = Squeeze(r.value)

\* Once a d record has been seen no later h record changes the hostname.
SettledByD ==
  (records' # records /\ records'[Len(records')].type = "h" /\ SeenD) =>
    hopMap'[<<"1">>].Hostname = NamedHost

\* The first half of C22 alone: what each h and each d record does.
C22_EachRecordApplied == [][RecordsApplied]_vars

\* C22: for any sequence of h and d records for one hop, each h record sets
\* the address to its value and sets the hostname to that address only if
\* the hostname is still "???", each d record overwrites the hostname with
\* its fields joined by single spaces, and once a d record has been seen no
\* later h record changes the hostname.
C22_DNameNeverReplaced == [][RecordsApplied /\ SettledByD]_vars

\* The hop of index i is in the returned list.
Emitted(i) == \E k \in 1..Len(result) : result[k].Hop = i

\* The indices of the hops returned before the walk reached index i.
EmittedBefore(i) == {result[k].Hop : k \in 1..Len(result)} \cap (1..(i - 1))

\* The hop emitted last before the walk reached index i.
PrecedingEmitted(i) ==
  hopMap[Itoa(CHOOSE m \in EmittedBefore(i) :
                 \A j \in EmittedBefore(i) : j <= m)]

\* C23: in the post-pass an existing hop of the walk 1..max is omitted from
\* the result if and only if it is not the first emitted hop and either its
\* non-empty address equals the address of the hop emitted last before it
\* or its hostname other than "???" equals that hop's hostname; the
\* comparison is with the last emitted hop, so a run of consecutive
\* duplicates leaves one entry.
C23_OmittedIffDuplicateOfLastEmitted ==
  pc = "done" =>
    \A i \in 1..MaxHopOf(hopMap) :
      Itoa(i) \in DOMAIN hopMap =>
        (~Emitted(i) <=>
           /\ EmittedBefore(i) # {}
           /\ LET hop == hopMap[Itoa(i)]
                  lastHop == PrecedingEmitted(i)
              IN \/ (hop.IP # <<>> /\ hop.IP = lastHop.IP)
                 \/ (hop.Hostname # Unknown
                       /\ hop.Hostname = lastHop.Hostname))

\* Hops 1 to 3 with hop 3 repeating the address of hop 2, which differs from
\* that of hop 1: exactly hops 1 and 2 are returned.
C23_Witness ==
  /\ pc = "done"
  /\ DOMAIN hopMap = {<<"1">>, <<"2">>, <<"3">>}
  /\ hopMap[<<"3">>].IP = hopMap[<<"2">>].IP
  /\ hopMap[<<"2">>].IP # hopMap[<<"1">>].IP
  /\ hopMap[<<"1">>].IP # <<>>
  /\ Len(result) = 2
  /\ result[1].Hop = 1
  /\ result[2].Hop = 2

\* The position of the earliest hop of hops whose Loss no hop exceeds.
EarliestMaxLoss ==
  CHOOSE j \in 1..Len(hops) :
    /\ \A i \in 1..Len(hops) : ~RatLess(hops[j].Loss, hops[i].Loss)
    /\ \A i \in 1..(j - 1) : RatLess(hops[i].Loss, hops[j].Loss)

\* The position of the earliest hop of hops whose Avg no hop exceeds.
EarliestMaxAvg ==
  CHOOSE j \in 1..Len(hops) :
    /\ \A i \in 1..Len(hops) : ~RatLess(hops[j].Avg, hops[i].Avg)
    /\ \A i \in 1..(j - 1) : RatLess(hops[i].Avg, hops[j].Avg)

\* C24: for a non-empty hop list, every summary generateSummary returned
\* says "No packet loss detected" exactly when no hop has a loss above 0 and
\* otherwise names the earliest hop of the largest loss; it names the
\* earliest hop of the largest average latency; and its end-to-end average,
\* best, worst and standard deviation are those of the last hop of the list.
C24_SummaryOfWorstAndLast ==
  \A k \in 1..Len(summaries) :
    LET s == summaries[k]
        wl == hops[EarliestMaxLoss]
        wa == hops[EarliestMaxAvg]
        lastHop == hops[Len(hops)]
    IN /\ Len(s) = 9
       /\ (s[3].format = "No packet loss detected") <=>
            (\A j \in 1..Len(hops) : ~RatLess(Zero, hops[j].Loss))
       /\ (\E j \in 1..Len(hops) : RatLess(Zero, hops[j].Loss)) =>
            /\ s[3].format = "Worst packet loss at hop %d (%s): %.1f%%"
            /\ s[3].args = <<Itoa(wl.Hop), wl.Hostname, FormatF1(wl.Loss)>>
       /\ s[4].format = "Highest average latency at hop %d (%s): %.1f ms"
       /\ s[4].args = <<Itoa(wa.Hop), wa.Hostname, FormatF1(wa.Avg)>>
       /\ s[5].args = <<lastHop.Hostname>>
       /\ s[6] = Line("  Average: %.1f ms", <<FormatF1(lastHop.Avg)>>)
       /\ s[7] = Line("  Best: %.1f ms", <<FormatF1(lastHop.Best)>>)
       /\ s[8] = Line("  Worst: %.1f ms", <<FormatF1(lastHop.Worst)>>)
       /\ s[9] = Line("  Standard Deviation: %.1f ms",
                      <<FormatF1(lastHop.StDev)>>)

\* A summary of two hops of the same loss above 0: the first is the one
\* named, and the end-to-end figures are the second's.
C24_Witness ==
  /\ Len(hops) = 2
  /\ hops[1].Loss = hops[2].Loss
  /\ RatLess(Zero, hops[1].Loss)
  /\ hops[1].Hostname # hops[2].Hostname
  /\ Len(summaries) >= 1
  /\ summaries[1][3].args[1] = <<"1">>
  /\ summaries[1][5].args = <<hops[2].Hostname>>

\* C25: for any record stream, lines whose hop-index field is negative or no
\* number among them, the hops parseOutput returns are in strictly
\* increasing order of hop index and every index returned is a positive
\* integer, so no index is returned twice.
C25_IndicesIncreasingAndPositive ==
  pc = "done" =>
    /\ \A k \in 1..Len(result) : result[k].Hop \in Nat \ {0}
    /\ \A k \in 1..(Len(result) - 1) : result[k].Hop < result[k + 1].Hop
    /\ \A j, k \in 1..Len(result) : result[j].Hop = result[k].Hop => j = k

\* A stream with a line of index field -1, which leaves a hop of index 0 in
\* the map, and records of two more hops: hops 1 and 2 are returned.
C25_Witness ==
  /\ pc = "done"
  /\ <<"0">> \in DOMAIN hopMap
  /\ hopMap[<<"0">>].Hop = 0
  /\ Len(result) = 2
  /\ result[1].Hop = 1
  /\ result[2].Hop = 2

\* C26: for any record stream and any configured count, every hop that
\* parseOutput returns has a loss percentage from 0 to 100, also when more p
\* records were counted for the hop than the configured count.
C26_LossWithinPercentRange ==
  pc = "done" =>
    \A j \in 1..Len(result) :
      /\ ~RatLess(result[j].Loss, Zero)
      /\ ~RatLess(FromInt(100), result[j].Loss)

====
